---- MODULE Spec2Model ----
(***************************************************************************)
(* ooredis: RedisDict and RedisDeque, two adapters that keep a mapping and *)
(* a deque in a Redis hash and a Redis list.  Every stored value is an     *)
(* envelope digest || payload: payload = pickle.dumps(value), digest =     *)
(* HMAC-SHA256(self.key, payload).                                         *)
(*                                                                         *)
(* Bytes and str are sequences of integers (bytes 0..255, code points).    *)
(* An optional value (Python's None or a value) is a sequence of length 0  *)
(* or 1.  An operation's outcome is a record whose kind is "return" or the *)
(* name of the Python exception raised.                                    *)
(***************************************************************************)
EXTENDS Integers, Sequences, FiniteSets, TLC

VARIABLES
    hashes,   \* the Redis hashes: redis name -> (field bytes -> optional envelope)
    lists,    \* the Redis lists: redis name -> sequence of envelopes
    built,    \* the adapters the program has constructed
    call,     \* the deque call that is between two of its Redis commands
    ret,      \* the outcome of the last call completed, while no call is in progress
    gdict,    \* history: redis name -> (key -> optional [val, by]) as the calls set it
    glist     \* history: redis name -> the appends made since the list was last empty

vars == <<hashes, lists, built, call, ret, gdict, glist>>

-----------------------------------------------------------------------------
(* Bounds of the model *)

\* a push is taken while the remote list is shorter than MaxLen
MaxLen == 2

\* the values stored
Values == {0, 1}

\* the str keys used with a RedisDict: "a" and "é" (one and two bytes in UTF-8)
Keys == {<<97>>, <<233>>}

\* the signing keys: K1z is K1 followed by a zero byte
K1 == <<1>>
K2 == <<2>>
K1z == <<1, 0>>

-----------------------------------------------------------------------------
(* Python and library primitives *)

Nil == <<>>
Some(x) == <<x>>

Min(a, b) == IF a < b THEN a ELSE b

Zeros(n) == [i \in 1..n |-> 0]

\* str.encode(): UTF-8 of code points below 2048
RECURSIVE str_encode(_)
str_encode(s) ==
    IF s = <<>> THEN <<>>
    ELSE LET c == Head(s)
             b == IF c < 128 THEN <<c>> ELSE <<192 + (c \div 64), 128 + (c % 64)>>
         IN b \o str_encode(Tail(s))

\* bytes.decode(): the inverse, on well-formed UTF-8 of at most two bytes a character
RECURSIVE bytes_decode(_)
bytes_decode(b) ==
    IF b = <<>> THEN <<>>
    ELSE IF Head(b) < 128 THEN <<Head(b)>> \o bytes_decode(Tail(b))
    ELSE <<(Head(b) - 192) * 64 + (b[2] - 128)>> \o bytes_decode(Tail(Tail(b)))

\* pickle.dumps of a small int, protocol 4: PROTO 4, BININT1 v, STOP
pickle_dumps(v) == <<128, 4, 75, v, 46>>

\* pickle.loads: the value, or UnpicklingError on bytes that are no such pickle
pickle_loads(p) ==
    IF Len(p) = 5 /\ p[1] = 128 /\ p[2] = 4 /\ p[3] = 75 /\ p[5] = 46
    THEN [ok |-> TRUE, val |-> p[4]]
    ELSE [ok |-> FALSE, val |-> 0]

\* _RedisBase._digest_len
digest_len == 32
\* the block size of SHA-256, to which HMAC pads its key with zero bytes
hmac_block_size == 64

\* hmac.new(key, payload, hashlib.sha256).digest(): HMAC pads the key with zeros
\* to the block size (RFC 2104) and hashes it with the payload to 32 bytes.
\* SHA-256 is stood for by a mixing function of the padded key and the payload
\* that has no collisions on the keys and payloads of this model.
hmac_digest(key, payload) ==
    LET K == key \o Zeros(hmac_block_size - Len(key))
        P(i) == IF i <= Len(payload) THEN payload[i] ELSE 0
    IN [i \in 1..digest_len |->
            (31 * K[i] + 17 * K[i + digest_len] + 7 * P(i) + 3 * Len(payload) + i) % 256]

-----------------------------------------------------------------------------
(* _RedisBase *)

\* _RedisBase.__init__: the fields of an adapter built with (name, prefix, key)
init(name, prefix, key) == [name |-> name, prefix |-> prefix, key |-> key]

DictInsts == {"A", "B", "E", "F"}
DequeInsts == {"P", "R"}
Insts == DictInsts \cup DequeInsts

\* the adapters of the model: the dictionaries A, B, E and F share an identity, the
\* deques P and R another; E and R hold a key of their own, and F holds A's key
\* followed by a zero byte
self ==
    [i \in Insts |->
        CASE i \in {"A", "B"} -> init("shared", "ns:", K1)
          [] i = "E" -> init("shared", "ns:", K2)
          [] i = "F" -> init("shared", "ns:", K1z)
          [] i = "P" -> init("queue", "ns:", K1)
          [] OTHER -> init("queue", "ns:", K2)]

\* _RedisBase._redis_name
redis_name(i) == self[i].prefix \o self[i].name

Names == {redis_name(i) : i \in Insts}

\* _RedisBase._calc_digest
calc_digest(key, payload) == hmac_digest(key, payload)

\* an encode that puts the digest after the payload
encode_digest_last(key, value) ==
    LET payload == pickle_dumps(value)
        digest == calc_digest(key, payload)
    IN payload \o digest

\* _RedisBase._encode
encode(key, value) ==
    LET payload == pickle_dumps(value)
        digest == calc_digest(key, payload)
    IN digest \o payload

\* a decode that unpickles before it compares the digests
decode_unpickles_first(key, data) ==
    LET payload == SubSeq(data, digest_len + 1, Len(data))
        redis_digest == SubSeq(data, 1, Min(digest_len, Len(data)))
        r == pickle_loads(payload)
    IN IF redis_digest # calc_digest(key, payload)
       THEN [kind |-> "ValueError", val |-> <<>>, unpickled |-> <<payload>>]
       ELSE [kind |-> IF r.ok THEN "return" ELSE "UnpicklingError",
             val |-> IF r.ok THEN <<r.val>> ELSE <<>>,
             unpickled |-> <<payload>>]

\* _RedisBase._decode: kind, the value returned, and the payloads handed to
\* pickle.loads on the way
decode(key, data) ==
    LET payload == SubSeq(data, digest_len + 1, Len(data))
        redis_digest == SubSeq(data, 1, Min(digest_len, Len(data)))
    IN IF redis_digest # calc_digest(key, payload)
       THEN [kind |-> "ValueError", val |-> <<>>, unpickled |-> <<>>]
       ELSE LET r == pickle_loads(payload)
            IN [kind |-> IF r.ok THEN "return" ELSE "UnpicklingError",
                val |-> IF r.ok THEN <<r.val>> ELSE <<>>,
                unpickled |-> <<payload>>]

-----------------------------------------------------------------------------
(* The Redis commands the adapters issue, on one hash h or one list l *)

Fields == {str_encode(k) : k \in Keys}

HGET(h, field) == h[field]

HSET(h, field, data) == [h EXCEPT ![field] = Some(data)]

\* HDEL: the hash afterwards and the number of fields removed
HDEL(h, field) ==
    [hash |-> [h EXCEPT ![field] = Nil], n |-> IF h[field] = Nil THEN 0 ELSE 1]

\* every order in which f lists the members of the finite set S
Orders(S) ==
    {f \in [1..Cardinality(S) -> S] : \A i, j \in 1..Cardinality(S) : f[i] = f[j] => i = j}

\* HKEYS: the fields present, in an order Redis does not promise
HKEYS(h) == Orders({f \in DOMAIN h : h[f] # Nil})

HLEN(h) == Cardinality({f \in DOMAIN h : h[f] # Nil})

RPUSH(l, data) == Append(l, data)

LPUSH(l, data) == <<data>> \o l

\* RPOP and LPOP: the list afterwards and the element removed, if there was one
RPOP(l) ==
    IF l = <<>> THEN [list |-> l, item |-> Nil]
    ELSE [list |-> SubSeq(l, 1, Len(l) - 1), item |-> Some(l[Len(l)])]

LPOP(l) ==
    IF l = <<>> THEN [list |-> l, item |-> Nil]
    ELSE [list |-> Tail(l), item |-> Some(Head(l))]

LLEN(l) == Len(l)

\* LINDEX: zero-based from the head, negative indices from the tail
LINDEX(l, index) ==
    IF index >= 0
    THEN IF index < Len(l) THEN Some(l[index + 1]) ELSE Nil
    ELSE IF Len(l) + index >= 0 THEN Some(l[Len(l) + index + 1]) ELSE Nil

\* the first m and the last m of a set of positions
FirstN(pos, m) == {j \in pos : Cardinality({j2 \in pos : j2 < j}) < m}
LastN(pos, m) == {j \in pos : Cardinality({j2 \in pos : j2 > j}) < m}

\* list l without the elements at the positions gone
Drop(l, gone) ==
    LET keep == (1..Len(l)) \ gone
        nth(t) == CHOOSE j \in keep : Cardinality({j2 \in keep : j2 < j}) = t - 1
    IN [t \in 1..Cardinality(keep) |-> l[nth(t)]]

\* LREM key count element: count > 0 removes the first count elements equal to
\* data, head to tail; count < 0 the last -count; count = 0 all of them.  The
\* list afterwards and the number removed
LREM(l, count, data) ==
    LET pos == {j \in 1..Len(l) : l[j] = data}
        gone == IF count > 0 THEN FirstN(pos, count)
                ELSE IF count < 0 THEN LastN(pos, 0 - count)
                ELSE pos
    IN [list |-> Drop(l, gone), n |-> Cardinality(gone)]

\* DEL key, on the keys of the server (hs the hashes, ls the lists): the key is
\* removed whatever its type, and a key that is not there reads as empty
DEL(hs, ls, name) ==
    [hashes |-> [n \in DOMAIN hs |-> IF n = name THEN [f \in DOMAIN hs[n] |-> Nil] ELSE hs[n]],
     lists |-> [n \in DOMAIN ls |-> IF n = name THEN <<>> ELSE ls[n]]]

-----------------------------------------------------------------------------
(* Outcomes *)

DictName == redis_name("A")
DequeName == redis_name("P")

\* the outcome of a call: who called what with which argument, how it ended
\* (kind), the value or keys returned, the envelope read from Redis, the
\* payloads handed to pickle.loads, and whether no write came between the
\* call's Redis commands.  A deque call that may write also records the list as
\* it was before the call's first command (base); every call records the Redis
\* commands it issued (cmds),
\* the length an iteration read (n), and, of a read at index -1, whether the list
\* held an element at every moment of the call (held) and, if so, the elements
\* that were at the tail at some moment of the call (tails)
Ret(inst, op, arg, kind, val, keys, data, unpickled, clean) ==
    [inst |-> inst, op |-> op, arg |-> arg, kind |-> kind, val |-> val, keys |-> keys,
     data |-> data, unpickled |-> unpickled, clean |-> clean,
     base |-> <<>>, cmds |-> <<>>, n |-> 0, tails |-> {}, held |-> TRUE]

NoRet == Ret("", "none", <<>>, "none", <<>>, <<>>, Nil, <<>>, TRUE)

\* A deque call that takes several Redis commands is followed one command at a
\* time, and the commands of other calls come between them.  One such call is
\* followed at a time, and only writes are taken while it runs: reads change
\* nothing it can see.
\* a deque call between two Redis commands: the index it will read next, the
\* length it read (n), the values it has yielded (out), the last envelope it read
\* and what it unpickled of it, and whether a write came since its first command;
\* base, cmds, tails and held are those of its outcome, as far as the call has come
Call(inst, op, arg, index, n, out, data, unpickled, dirty) ==
    [inst |-> inst, op |-> op, arg |-> arg, index |-> index, n |-> n, out |-> out,
     data |-> data, unpickled |-> unpickled, dirty |-> dirty,
     base |-> <<>>, cmds |-> <<>>, tails |-> {}, held |-> TRUE]

NoCall == Call("", "none", <<>>, 0, 0, <<>>, Nil, <<>>, FALSE)

\* the outcome a write records: that of a write that comes between the commands
\* of the call in progress is not recorded
Seen(r) == IF call.op = "none" THEN r ELSE NoRet

\* the element at the tail of list l, if it has one
TailOf(l) == IF l = <<>> THEN {} ELSE {l[Len(l)]}

\* a write to the list reaches the call in progress, if there is one; a read at
\* index -1 sees the tail the write leaves, for as long as the list has held an
\* element at every moment of the call
Touch(c) ==
    IF c.op = "none" THEN c
    ELSE IF c.op = "getitem" /\ c.arg = <<0 - 1>> /\ c.held
         THEN IF lists'[DequeName] = <<>>
              THEN [c EXCEPT !.dirty = TRUE, !.tails = {}, !.held = FALSE]
              ELSE [c EXCEPT !.dirty = TRUE, !.tails = @ \cup TailOf(lists'[DequeName])]
         ELSE [c EXCEPT !.dirty = TRUE]

\* a history entry: the value written and the adapter that wrote it
Entry(value, i) == [val |-> value, by |-> i]

-----------------------------------------------------------------------------
(* RedisDict *)

\* a __getitem__ that reports an envelope it cannot verify as a missing key
RedisDict_getitem_masks(i, key) ==
    LET data == HGET(hashes[redis_name(i)], str_encode(key))
    IN IF data = Nil \/ decode(self[i].key, data[1]).kind = "ValueError"
       THEN [kind |-> "KeyError", val |-> <<>>, data |-> data, unpickled |-> <<>>]
       ELSE LET d == decode(self[i].key, data[1])
            IN [kind |-> d.kind, val |-> d.val, data |-> data, unpickled |-> d.unpickled]

\* RedisDict.__getitem__
RedisDict_getitem(i, key) ==
    LET data == HGET(hashes[redis_name(i)], str_encode(key))
    IN IF data = Nil
       THEN [kind |-> "KeyError", val |-> <<>>, data |-> data, unpickled |-> <<>>]
       ELSE LET d == decode(self[i].key, data[1])
            IN [kind |-> d.kind, val |-> d.val, data |-> data, unpickled |-> d.unpickled]

\* a __setitem__ that leaves a field that exists as it is (HSETNX for HSET)
RedisDict_setitem_nx(i, key, value) ==
    IF HGET(hashes[redis_name(i)], str_encode(key)) = Nil
    THEN HSET(hashes[redis_name(i)], str_encode(key), encode(self[i].key, value))
    ELSE hashes[redis_name(i)]

\* RedisDict.__setitem__: the hash afterwards
RedisDict_setitem(i, key, value) ==
    HSET(hashes[redis_name(i)], str_encode(key), encode(self[i].key, value))

\* a __delitem__ that deletes the whole hash (DEL for HDEL)
RedisDict_delitem_del(i, key) ==
    [hash |-> [f \in Fields |-> Nil],
     kind |-> IF HGET(hashes[redis_name(i)], str_encode(key)) = Nil THEN "KeyError" ELSE "return"]

\* RedisDict.__delitem__: the hash afterwards and how the call ends
RedisDict_delitem(i, key) ==
    LET result == HDEL(hashes[redis_name(i)], str_encode(key))
    IN [hash |-> result.hash, kind |-> IF result.n = 0 THEN "KeyError" ELSE "return"]

\* an __iter__ that yields the fields as bytes
RedisDict_iter_bytes(fields) == fields

\* RedisDict.__iter__ over the fields HKEYS returned
RedisDict_iter(fields) == [j \in 1..Len(fields) |-> bytes_decode(fields[j])]

\* a __len__ that counts the fields ever written
RedisDict_len_all(i) == Cardinality(DOMAIN hashes[redis_name(i)])

\* RedisDict.__len__
RedisDict_len(i) == HLEN(hashes[redis_name(i)])

DictGet(i, key) ==
    /\ i \in built
    /\ LET r == RedisDict_getitem(i, key)
       IN ret' = [Ret(i, "dict_get", key, r.kind, r.val, <<>>, r.data, r.unpickled, TRUE)
                     EXCEPT !.cmds = <<"HGET">>]
    /\ UNCHANGED <<hashes, lists, built, call, gdict, glist>>

DictSet(i, key, value) ==
    /\ i \in built
    /\ hashes' = [hashes EXCEPT ![redis_name(i)] = RedisDict_setitem(i, key, value)]
    /\ ret' = [Ret(i, "dict_set", key, "return", <<value>>, <<>>, Nil, <<>>, TRUE)
                     EXCEPT !.cmds = <<"HSET">>]
    /\ gdict' = [gdict EXCEPT ![redis_name(i)][key] = Some(Entry(value, i))]
    /\ UNCHANGED <<lists, built, call, glist>>

DictDel(i, key) ==
    /\ i \in built
    /\ LET r == RedisDict_delitem(i, key)
       IN /\ hashes' = [hashes EXCEPT ![redis_name(i)] = r.hash]
          /\ ret' = [Ret(i, "dict_del", key, r.kind, <<>>, <<>>, Nil, <<>>, TRUE)
                     EXCEPT !.cmds = <<"HDEL">>]
    /\ gdict' = [gdict EXCEPT ![redis_name(i)][key] = Nil]
    /\ UNCHANGED <<lists, built, call, glist>>

DictIter(i) ==
    /\ i \in built
    /\ \E fields \in HKEYS(hashes[redis_name(i)]) :
          ret' = [Ret(i, "dict_iter", <<>>, "return", <<>>, RedisDict_iter(fields), Nil, <<>>, TRUE)
                     EXCEPT !.cmds = <<"HKEYS">>]
    /\ UNCHANGED <<hashes, lists, built, call, gdict, glist>>

DictLen(i) ==
    /\ i \in built
    /\ ret' = [Ret(i, "dict_len", <<>>, "return", <<RedisDict_len(i)>>, <<>>, Nil, <<>>, TRUE)
                     EXCEPT !.cmds = <<"HLEN">>]
    /\ UNCHANGED <<hashes, lists, built, call, gdict, glist>>

-----------------------------------------------------------------------------
(* RedisDeque *)

\* an append that pushes at the head
RedisDeque_append_head(i, value) == LPUSH(lists[redis_name(i)], encode(self[i].key, value))

\* RedisDeque.append: the list afterwards
RedisDeque_append(i, value) == RPUSH(lists[redis_name(i)], encode(self[i].key, value))

\* RedisDeque.append_left: the list afterwards
RedisDeque_append_left(i, value) == LPUSH(lists[redis_name(i)], encode(self[i].key, value))

\* an extendleft that pushes the items last to first
RedisDeque_extendleft_backwards(i, data, j) == RedisDeque_append_left(i, data[Len(data) + 1 - j])

\* RedisDeque.extendleft, the j-th pass of its loop: the list afterwards
RedisDeque_extendleft(i, data, j) == RedisDeque_append_left(i, data[j])

\* RedisDeque.__len__
RedisDeque_len(i) == LLEN(lists[redis_name(i)])

\* what pop and popleft do with r, the answer of RPOP or LPOP: `not item` is
\* true of None and of empty bytes
popped(i, r) ==
    IF r.item = Nil \/ r.item[1] = <<>>
    THEN [list |-> r.list, kind |-> "IndexError", val |-> <<>>, data |-> r.item,
          unpickled |-> <<>>]
    ELSE LET d == decode(self[i].key, r.item[1])
         IN [list |-> r.list, kind |-> d.kind, val |-> d.val, data |-> r.item,
             unpickled |-> d.unpickled]

\* a pop that reads the tail with LINDEX and leaves it on the list
RedisDeque_pop_keeps(i) ==
    LET l == lists[redis_name(i)]
        p == popped(i, [list |-> l, item |-> LINDEX(l, 0 - 1)])
    IN [list |-> p.list, kind |-> p.kind, val |-> p.val, data |-> p.data,
        unpickled |-> p.unpickled, cmds |-> <<"LINDEX">>]

\* a pop that verifies the tail before it removes it
RedisDeque_pop_verifies(i) ==
    LET l == lists[redis_name(i)]
        p == popped(i, [list |-> l, item |-> LINDEX(l, 0 - 1)])
    IN [list |-> IF p.kind = "return" THEN RPOP(l).list ELSE l,
        kind |-> p.kind, val |-> p.val, data |-> p.data, unpickled |-> p.unpickled,
        cmds |-> IF p.kind = "return" THEN <<"LINDEX", "RPOP">> ELSE <<"LINDEX">>]

\* a pop that takes the element at the head
RedisDeque_pop_head(i) ==
    LET p == popped(i, LPOP(lists[redis_name(i)]))
    IN [list |-> p.list, kind |-> p.kind, val |-> p.val, data |-> p.data,
        unpickled |-> p.unpickled, cmds |-> <<"LPOP">>]

\* RedisDeque.pop: the list afterwards, how the call ends, the commands it issued
RedisDeque_pop(i) ==
    LET p == popped(i, RPOP(lists[redis_name(i)]))
    IN [list |-> p.list, kind |-> p.kind, val |-> p.val, data |-> p.data,
        unpickled |-> p.unpickled, cmds |-> <<"RPOP">>]

\* RedisDeque.popleft
RedisDeque_popleft(i) ==
    LET p == popped(i, LPOP(lists[redis_name(i)]))
    IN [list |-> p.list, kind |-> p.kind, val |-> p.val, data |-> p.data,
        unpickled |-> p.unpickled, cmds |-> <<"LPOP">>]

\* a clear that empties the whole server (FLUSHDB for DEL)
RedisDeque_clear_flushes(i) ==
    [hashes |-> [n \in DOMAIN hashes |-> [f \in DOMAIN hashes[n] |-> Nil]],
     lists |-> [n \in DOMAIN lists |-> <<>>],
     cmds |-> <<"FLUSHDB">>]

\* RedisDeque.clear: the keys of the server afterwards, the commands issued
RedisDeque_clear(i) ==
    LET r == DEL(hashes, lists, redis_name(i))
    IN [hashes |-> r.hashes, lists |-> r.lists, cmds |-> <<"DEL">>]

\* RedisDeque.insert: raises before any Redis command
RedisDeque_insert(i, index, value) ==
    [list |-> lists[redis_name(i)], kind |-> "NotImplementedError", cmds |-> <<>>]

\* a __delitem__ that removes the elements equal to the one at index
RedisDeque_delitem_lrem(i, index) ==
    LET l == lists[redis_name(i)]
        data == LINDEX(l, index)
    IN IF data = Nil
       THEN [list |-> l, kind |-> "IndexError", cmds |-> <<"LINDEX">>]
       ELSE [list |-> LREM(l, 1, data[1]).list, kind |-> "return",
             cmds |-> <<"LINDEX", "LREM">>]

\* RedisDeque.__delitem__: raises before any Redis command
RedisDeque_delitem(i, index) ==
    [list |-> lists[redis_name(i)], kind |-> "NotImplementedError", cmds |-> <<>>]

\* a remove that takes the matches nearest the tail
RedisDeque_remove_tail(i, value, count) ==
    LET result == LREM(lists[redis_name(i)], 0 - count, encode(self[i].key, value))
    IN [list |-> result.list, kind |-> IF result.n = 0 THEN "ValueError" ELSE "return",
        val |-> IF result.n = 0 THEN <<>> ELSE <<result.n>>, cmds |-> <<"LREM">>]

\* RedisDeque.remove: the list afterwards, how the call ends, the count returned
RedisDeque_remove(i, value, count) ==
    LET rvalue == encode(self[i].key, value)
        result == LREM(lists[redis_name(i)], count, rvalue)
    IN [list |-> result.list, kind |-> IF result.n = 0 THEN "ValueError" ELSE "return",
        val |-> IF result.n = 0 THEN <<>> ELSE <<result.n>>, cmds |-> <<"LREM">>]

\* an adjustment that takes index 0 for a negative index
RedisDeque_getitem_index_le(i, index) ==
    IF index <= 0 THEN index + RedisDeque_len(i) ELSE index

\* RedisDeque.__getitem__, its first lines: a negative index has the length added,
\* which takes a Redis command of its own
RedisDeque_getitem_index(i, index) ==
    IF index < 0 THEN index + RedisDeque_len(i) ELSE index

\* RedisDeque.__getitem__, from LINDEX on, with the index as adjusted above.  The
\* raise of the missing-element branch names `key`, which no scope defines:
\* evaluating it raises NameError
RedisDeque_getitem_fetch(i, index) ==
    LET data == LINDEX(lists[redis_name(i)], index)
    IN IF data = Nil
       THEN [kind |-> "NameError", val |-> <<>>, data |-> data, unpickled |-> <<>>]
       ELSE LET d == decode(self[i].key, data[1])
            IN [kind |-> d.kind, val |-> d.val, data |-> data, unpickled |-> d.unpickled]

\* RedisDeque.__setitem__: a negative index has the length added, which takes
\* LLEN; the arguments of the lset call are evaluated next, and the second names
\* `key`, which no scope defines: NameError is raised before _encode and before
\* LSET
RedisDeque_setitem(i, index, value) ==
    [list |-> lists[redis_name(i)], kind |-> "NameError",
     cmds |-> IF index < 0 THEN <<"LLEN">> ELSE <<>>]

DequeAppend(i, value) ==
    /\ i \in built
    /\ Len(lists[redis_name(i)]) < MaxLen
    /\ lists' = [lists EXCEPT ![redis_name(i)] = RedisDeque_append(i, value)]
    /\ ret' = Seen([Ret(i, "append", <<>>, "return", <<value>>, <<>>, Nil, <<>>, TRUE)
                  EXCEPT !.base = lists[redis_name(i)], !.cmds = <<"RPUSH">>])
    /\ call' = Touch(call)
    /\ glist' = [glist EXCEPT ![redis_name(i)] =
                    [xs |-> Append(@.xs, Entry(value, i)),
                     pure |-> @.pure \/ lists[redis_name(i)] = <<>>]]
    /\ UNCHANGED <<hashes, built, gdict>>

DequeAppendLeft(i, value) ==
    /\ i \in built
    /\ Len(lists[redis_name(i)]) < MaxLen
    /\ lists' = [lists EXCEPT ![redis_name(i)] = RedisDeque_append_left(i, value)]
    /\ ret' = Seen([Ret(i, "append_left", <<>>, "return", <<value>>, <<>>, Nil, <<>>, TRUE)
                  EXCEPT !.base = lists[redis_name(i)], !.cmds = <<"LPUSH">>])
    /\ call' = Touch(call)
    /\ glist' = [glist EXCEPT ![redis_name(i)] =
                    [xs |-> <<Entry(value, i)>> \o @.xs, pure |-> FALSE]]
    /\ UNCHANGED <<hashes, built, gdict>>

\* extendleft, up to its first LPUSH; with no item it issues no command
DequeExtendLeft(i, data) ==
    /\ i \in built
    /\ call.op = "none"
    /\ Len(lists[redis_name(i)]) + Len(data) <= MaxLen
    /\ IF data = <<>>
       THEN /\ ret' = [Ret(i, "extendleft", data, "return", <<>>, <<>>, Nil, <<>>, TRUE)
                          EXCEPT !.base = lists[redis_name(i)]]
            /\ UNCHANGED <<lists, call, glist>>
       ELSE /\ lists' = [lists EXCEPT ![redis_name(i)] = RedisDeque_extendleft(i, data, 1)]
            /\ glist' = [glist EXCEPT ![redis_name(i)] =
                            [xs |-> <<Entry(data[1], i)>> \o @.xs, pure |-> FALSE]]
            /\ IF Len(data) = 1
               THEN /\ ret' = [Ret(i, "extendleft", data, "return", <<>>, <<>>, Nil, <<>>, TRUE)
                                  EXCEPT !.base = lists[redis_name(i)], !.cmds = <<"LPUSH">>]
                    /\ call' = call
               ELSE /\ call' = [Call(i, "extendleft", data, 1, 0, <<>>, Nil, <<>>, FALSE)
                                   EXCEPT !.base = lists[redis_name(i)], !.cmds = <<"LPUSH">>]
                    /\ ret' = NoRet
    /\ UNCHANGED <<hashes, built, gdict>>

\* extendleft, the next LPUSH; the call returns after the last item
DequeExtendLeftNext ==
    /\ call.op = "extendleft"
    /\ Len(lists[redis_name(call.inst)]) < MaxLen
    /\ lists' = [lists EXCEPT ![redis_name(call.inst)] =
                    RedisDeque_extendleft(call.inst, call.arg, call.index + 1)]
    /\ glist' = [glist EXCEPT ![redis_name(call.inst)] =
                    [xs |-> <<Entry(call.arg[call.index + 1], call.inst)>> \o @.xs,
                     pure |-> FALSE]]
    /\ IF call.index + 1 = Len(call.arg)
       THEN /\ ret' = [Ret(call.inst, "extendleft", call.arg, "return", <<>>, <<>>, Nil, <<>>,
                           ~call.dirty)
                          EXCEPT !.base = call.base, !.cmds = Append(call.cmds, "LPUSH")]
            /\ call' = NoCall
       ELSE /\ call' = [call EXCEPT !.index = @ + 1, !.cmds = Append(@, "LPUSH")]
            /\ ret' = NoRet
    /\ UNCHANGED <<hashes, built, gdict>>

DequeLen(i) ==
    /\ i \in built
    /\ call.op = "none"
    /\ ret' = [Ret(i, "deque_len", <<>>, "return", <<RedisDeque_len(i)>>, <<>>, Nil, <<>>, TRUE)
                  EXCEPT !.cmds = <<"LLEN">>]
    /\ UNCHANGED <<hashes, lists, built, call, gdict, glist>>

DequePop(i) ==
    /\ i \in built
    /\ LET r == RedisDeque_pop(i)
       IN /\ lists' = [lists EXCEPT ![redis_name(i)] = r.list]
          /\ ret' = Seen([Ret(i, "pop", <<>>, r.kind, r.val, <<>>, r.data, r.unpickled, TRUE)
                        EXCEPT !.base = lists[redis_name(i)], !.cmds = r.cmds])
    /\ call' = Touch(call)
    /\ glist' = [glist EXCEPT ![redis_name(i)] =
                    [xs |-> SubSeq(@.xs, 1, Len(@.xs) - 1), pure |-> FALSE]]
    /\ UNCHANGED <<hashes, built, gdict>>

DequePopLeft(i) ==
    /\ i \in built
    /\ LET r == RedisDeque_popleft(i)
       IN /\ lists' = [lists EXCEPT ![redis_name(i)] = r.list]
          /\ ret' = Seen([Ret(i, "popleft", <<>>, r.kind, r.val, <<>>, r.data, r.unpickled, TRUE)
                        EXCEPT !.base = lists[redis_name(i)], !.cmds = r.cmds])
    /\ call' = Touch(call)
    /\ glist' = [glist EXCEPT ![redis_name(i)] =
                    [xs |-> SubSeq(@.xs, 2, Len(@.xs)), pure |-> FALSE]]
    /\ UNCHANGED <<hashes, built, gdict>>

DequeClear(i) ==
    /\ i \in built
    /\ LET r == RedisDeque_clear(i)
       IN /\ hashes' = r.hashes
          /\ lists' = r.lists
          /\ ret' = Seen([Ret(i, "clear", <<>>, "return", <<>>, <<>>, Nil, <<>>, TRUE)
                        EXCEPT !.base = lists[redis_name(i)], !.cmds = r.cmds])
    /\ call' = Touch(call)
    /\ glist' = [glist EXCEPT ![redis_name(i)] = [xs |-> <<>>, pure |-> FALSE]]
    /\ UNCHANGED <<built, gdict>>

DequeInsert(i, index, value) ==
    /\ i \in built
    /\ call.op = "none"
    /\ LET r == RedisDeque_insert(i, index, value)
       IN /\ lists' = [lists EXCEPT ![redis_name(i)] = r.list]
          /\ ret' = [Ret(i, "insert", <<index, value>>, r.kind, <<>>, <<>>, Nil, <<>>, TRUE)
                        EXCEPT !.base = lists[redis_name(i)], !.cmds = r.cmds]
    /\ UNCHANGED <<hashes, built, call, gdict, glist>>

DequeDelItem(i, index) ==
    /\ i \in built
    /\ call.op = "none"
    /\ LET r == RedisDeque_delitem(i, index)
       IN /\ lists' = [lists EXCEPT ![redis_name(i)] = r.list]
          /\ ret' = [Ret(i, "delitem", <<index>>, r.kind, <<>>, <<>>, Nil, <<>>, TRUE)
                        EXCEPT !.base = lists[redis_name(i)], !.cmds = r.cmds]
    /\ UNCHANGED <<hashes, built, call, gdict, glist>>

\* the history entries remove(value) is to take: those of this value written
\* under the caller's key
Removable(i, value) ==
    {j \in 1..Len(glist[redis_name(i)].xs) :
        LET e == glist[redis_name(i)].xs[j]
        IN e.by \in Insts /\ self[e.by].key = self[i].key /\ e.val = value}

DequeRemove(i, value, count) ==
    /\ i \in built
    /\ LET r == RedisDeque_remove(i, value, count)
       IN /\ lists' = [lists EXCEPT ![redis_name(i)] = r.list]
          /\ ret' = Seen([Ret(i, "remove", <<value, count>>, r.kind, r.val, <<>>, Nil, <<>>, TRUE)
                        EXCEPT !.base = lists[redis_name(i)], !.cmds = r.cmds])
    /\ call' = Touch(call)
    /\ glist' = [glist EXCEPT ![redis_name(i)] =
                    [xs |-> Drop(@.xs, FirstN(Removable(i, value), count)), pure |-> FALSE]]
    /\ UNCHANGED <<hashes, built, gdict>>

\* __getitem__ with index >= 0: LINDEX is its only Redis command
DequeGetItem(i, index) ==
    /\ i \in built
    /\ call.op = "none"
    /\ index >= 0
    /\ LET r == RedisDeque_getitem_fetch(i, RedisDeque_getitem_index(i, index))
       IN ret' = [Ret(i, "deque_get", <<index>>, r.kind, r.val, <<>>, r.data, r.unpickled, TRUE)
                     EXCEPT !.cmds = <<"LINDEX">>]
    /\ UNCHANGED <<hashes, lists, built, call, gdict, glist>>

\* __getitem__ with index < 0, first command: LLEN
DequeGetItemLen(i, index) ==
    /\ i \in built
    /\ call.op = "none"
    /\ index < 0
    /\ call' = [Call(i, "getitem", <<index>>, RedisDeque_getitem_index(i, index),
                     RedisDeque_len(i), <<>>, Nil, <<>>, FALSE)
                   EXCEPT !.cmds = <<"LLEN">>,
                          !.tails = IF index = 0 - 1 THEN TailOf(lists[redis_name(i)]) ELSE {},
                          !.held = (index = 0 - 1 /\ lists[redis_name(i)] # <<>>)]
    /\ ret' = NoRet
    /\ UNCHANGED <<hashes, lists, built, gdict, glist>>

\* __getitem__ with index < 0, second command: LINDEX
DequeGetItemFetch ==
    /\ call.op = "getitem"
    /\ LET r == RedisDeque_getitem_fetch(call.inst, call.index)
       IN ret' = [Ret(call.inst, "deque_get", call.arg, r.kind, r.val, <<>>, r.data,
                      r.unpickled, ~call.dirty)
                     EXCEPT !.cmds = Append(call.cmds, "LINDEX"),
                            !.tails = call.tails, !.held = call.held]
    /\ call' = NoCall
    /\ UNCHANGED <<hashes, lists, built, gdict, glist>>

\* __setitem__: no path of it reaches LSET
DequeSetItem(i, index, value) ==
    /\ i \in built
    /\ call.op = "none"
    /\ LET r == RedisDeque_setitem(i, index, value)
       IN /\ lists' = [lists EXCEPT ![redis_name(i)] = r.list]
          /\ ret' = [Ret(i, "deque_set", <<index, value>>, r.kind, <<>>, <<>>, Nil, <<>>, TRUE)
                        EXCEPT !.base = lists[redis_name(i)], !.cmds = r.cmds]
    /\ UNCHANGED <<hashes, built, call, gdict, glist>>

\* __iter__, up to the first yield: range(len(self)) reads the length once
DequeIterLen(i) ==
    /\ i \in built
    /\ call.op = "none"
    /\ LET n == RedisDeque_len(i)
       IN IF n = 0
          THEN /\ ret' = [Ret(i, "deque_iter", <<>>, "return", <<>>, <<>>, Nil, <<>>, TRUE)
                             EXCEPT !.cmds = <<"LLEN">>]
               /\ call' = call
          ELSE /\ call' = [Call(i, "iter", <<>>, 0, n, <<>>, Nil, <<>>, FALSE)
                              EXCEPT !.cmds = <<"LLEN">>]
               /\ ret' = NoRet
    /\ UNCHANGED <<hashes, lists, built, gdict, glist>>

\* an __iter__ that reads the length again before every element
DequeIterNext_rereads ==
    /\ call.op = "iter"
    /\ LET r == RedisDeque_getitem_fetch(call.inst, RedisDeque_getitem_index(call.inst, call.index))
           out == call.out \o r.val
           cmds == call.cmds \o <<"LINDEX", "LLEN">>
       IN IF r.kind # "return" \/ call.index + 1 >= RedisDeque_len(call.inst)
          THEN /\ ret' = [Ret(call.inst, "deque_iter", <<>>, r.kind, out, <<>>, r.data,
                              r.unpickled, ~call.dirty)
                             EXCEPT !.cmds = cmds, !.n = call.n]
               /\ call' = NoCall
          ELSE /\ call' = [call EXCEPT !.index = @ + 1, !.out = out, !.data = r.data,
                                       !.unpickled = r.unpickled, !.cmds = cmds]
               /\ ret' = ret
    /\ UNCHANGED <<hashes, lists, built, gdict, glist>>

\* __iter__, the next element: self[i] with i >= 0, yielded or raising; the
\* generator ends after the element at n - 1
DequeIterNext ==
    /\ call.op = "iter"
    /\ LET r == RedisDeque_getitem_fetch(call.inst, RedisDeque_getitem_index(call.inst, call.index))
           out == call.out \o r.val
           cmds == Append(call.cmds, "LINDEX")
       IN IF r.kind # "return" \/ call.index + 1 = call.n
          THEN /\ ret' = [Ret(call.inst, "deque_iter", <<>>, r.kind, out, <<>>, r.data,
                              r.unpickled, ~call.dirty)
                             EXCEPT !.cmds = cmds, !.n = call.n]
               /\ call' = NoCall
          ELSE /\ call' = [call EXCEPT !.index = @ + 1, !.out = out, !.data = r.data,
                                       !.unpickled = r.unpickled, !.cmds = cmds]
               /\ ret' = ret
    /\ UNCHANGED <<hashes, lists, built, gdict, glist>>

Indices == (0 - MaxLen - 1)..MaxLen

\* the length of the lists remove is tried on by itself
RemoveLen == 3

\* the counts passed to remove
Counts == 1..MaxLen

\* the sequences passed to extendleft
Datas == UNION {[1..m -> Values] : m \in 0..MaxLen}

-----------------------------------------------------------------------------
(* Other clients of the Redis server *)

\* bytes a client without any signing key can store: empty bytes, and the digest
\* of one envelope in front of the payload of another
Crafted == {<<>>, SubSeq(encode(K1, 0), 1, digest_len) \o pickle_dumps(1)}

\* what the history records of such a write
RawEntry == [val |-> 0 - 1, by |-> "raw"]

RawHSet(key, data) ==
    /\ built = DictInsts
    /\ hashes' = [hashes EXCEPT ![DictName] = HSET(@, str_encode(key), data)]
    /\ gdict' = [gdict EXCEPT ![DictName][key] = Some(RawEntry)]
    /\ UNCHANGED <<lists, built, call, ret, glist>>

\* on the list the crafted element followed is the empty one, which pop and popleft
\* take for no element; a digest that does not fit is what the envelopes of an
\* adapter with another key are to a reader
RawRPush(data) ==
    /\ built = DequeInsts
    /\ data = <<>>
    /\ Len(lists[DequeName]) < MaxLen
    /\ lists' = [lists EXCEPT ![DequeName] = RPUSH(@, data)]
    /\ call' = Touch(call)
    /\ glist' = [glist EXCEPT ![DequeName] = [xs |-> Append(@.xs, RawEntry), pure |-> FALSE]]
    /\ UNCHANGED <<hashes, built, ret, gdict>>

-----------------------------------------------------------------------------
(* The specification *)

\* a program builds dictionaries or deques over its connection; the two kinds
\* never share a Redis key, so a run with both is two independent runs
InitStore ==
    /\ hashes = [n \in {DictName} |-> [f \in Fields |-> Nil]]
    /\ lists = [n \in {DequeName} |-> <<>>]
    /\ call = NoCall
    /\ ret = NoRet
    /\ gdict = [n \in {DictName} |-> [k \in Keys |-> Nil]]
    /\ glist = [n \in {DequeName} |-> [xs |-> <<>>, pure |-> TRUE]]

InitDict == InitStore /\ built = DictInsts

\* the hash a program that builds deques finds on the server: the dictionary
\* another program keeps there under its own key, with one field set
OtherHash == [f \in Fields |-> IF f = str_encode(<<97>>) THEN Some(encode(K1, 0)) ELSE Nil]

InitDeque ==
    /\ hashes = [n \in {DictName} |-> OtherHash]
    /\ lists = [n \in {DequeName} |-> <<>>]
    /\ call = NoCall
    /\ ret = NoRet
    /\ gdict = [n \in {DictName} |->
                   [k \in Keys |-> IF k = <<97>> THEN Some(Entry(0, "A")) ELSE Nil]]
    /\ glist = [n \in {DequeName} |-> [xs |-> <<>>, pure |-> TRUE]]
    /\ built = DequeInsts

Init == InitDict \/ InitDeque

NextDict ==
    \/ \E i \in DictInsts, key \in Keys : DictGet(i, key)
    \/ \E i \in DictInsts, key \in Keys, value \in Values : DictSet(i, key, value)
    \/ \E i \in DictInsts, key \in Keys : DictDel(i, key)
    \/ \E i \in DictInsts : DictIter(i)
    \/ \E i \in DictInsts : DictLen(i)

NextDeque ==
    \/ \E i \in DequeInsts, value \in Values : DequeAppend(i, value)
    \/ \E i \in DequeInsts, value \in Values : DequeAppendLeft(i, value)
    \/ \E i \in DequeInsts, data \in Datas : DequeExtendLeft(i, data)
    \/ DequeExtendLeftNext
    \/ \E i \in DequeInsts : DequeLen(i)
    \/ \E i \in DequeInsts : DequePop(i)
    \/ \E i \in DequeInsts : DequePopLeft(i)
    \/ \E i \in DequeInsts : DequeClear(i)
    \/ \E i \in DequeInsts, index \in Indices, value \in Values : DequeInsert(i, index, value)
    \/ \E i \in DequeInsts, index \in Indices : DequeDelItem(i, index)
    \/ \E i \in DequeInsts, value \in Values, count \in Counts : DequeRemove(i, value, count)
    \/ \E i \in DequeInsts, index \in Indices : DequeGetItem(i, index)
    \/ \E i \in DequeInsts, index \in Indices : DequeGetItemLen(i, index)
    \/ DequeGetItemFetch
    \/ \E i \in DequeInsts, index \in Indices, value \in Values : DequeSetItem(i, index, value)
    \/ \E i \in DequeInsts : DequeIterLen(i)
    \/ DequeIterNext

Tamper ==
    \/ \E key \in Keys, data \in Crafted : RawHSet(key, data)
    \/ \E data \in Crafted : RawRPush(data)

Next == NextDict \/ NextDeque \/ Tamper

\* the adapters of either kind, on a server other clients write to
Spec == Init /\ [][Next]_vars

\* the programs that build dictionaries, on a server that is theirs alone
SpecDict == InitDict /\ [][NextDict]_vars

\* the programs that build deques, on a server that is theirs alone
SpecDeque == InitDeque /\ [][NextDeque]_vars

\* remove by itself, on every list of up to RemoveLen elements that the two
\* adapters can have pushed
Pushed == {Entry(v, i) : v \in Values, i \in DequeInsts}

InitRemove ==
    /\ \E xs \in UNION {[1..m -> Pushed] : m \in 0..RemoveLen} :
          /\ lists = [n \in {DequeName} |->
                         [j \in 1..Len(xs) |-> encode(self[xs[j].by].key, xs[j].val)]]
          /\ glist = [n \in {DequeName} |-> [xs |-> xs, pure |-> FALSE]]
    /\ hashes = [n \in {DictName} |-> OtherHash]
    /\ call = NoCall
    /\ ret = NoRet
    /\ gdict = [n \in {DictName} |->
                   [k \in Keys |-> IF k = <<97>> THEN Some(Entry(0, "A")) ELSE Nil]]
    /\ built = DequeInsts

NextRemove ==
    \E i \in DequeInsts, value \in Values, count \in 1..RemoveLen : DequeRemove(i, value, count)

SpecRemove == InitRemove /\ [][NextRemove]_vars

\* the deques, with a consumer that keeps asking the generator of __iter__ for
\* its next element: the for loop over the deque
SpecDequeFair == SpecDeque /\ WF_vars(DequeIterNext)

-----------------------------------------------------------------------------
(* Properties *)

\* the envelope an outcome or a call in progress read, split where _decode splits it
TagOf(data) == SubSeq(data[1], 1, Min(digest_len, Len(data[1])))
PayloadOf(data) == SubSeq(data[1], digest_len + 1, Len(data[1]))

ReadOps == {"dict_get", "deque_get", "pop", "popleft", "deque_iter"}

\* r is an outcome or a call in progress: what it unpickled is the payload of the
\* envelope it read, and that envelope's tag is the reader's HMAC of the payload
VerifiedRead(r) ==
    \A j \in 1..Len(r.unpickled) :
        /\ r.data # Nil
        /\ r.unpickled[j] = PayloadOf(r.data)
        /\ TagOf(r.data) = hmac_digest(self[r.inst].key, PayloadOf(r.data))

\* r read an envelope whose tag is not the reader's HMAC of its payload: the call
\* failed and unpickled nothing
RejectedRead(r) ==
    (r.data # Nil /\ TagOf(r.data) # hmac_digest(self[r.inst].key, PayloadOf(r.data)))
        => r.kind # "return" /\ r.unpickled = <<>>

\* C1: every reading call (dictionary get, deque get, pop, popleft, iteration)
\* hands a payload to pickle.loads only if the stored tag equals the HMAC of that
\* payload under the reader's own key; on a differing tag the call fails and
\* nothing is unpickled
C1_VerifyBeforeDeserialize ==
    /\ ret.op \in ReadOps => VerifiedRead(ret) /\ RejectedRead(ret)
    /\ call.op # "none" => VerifiedRead(call)

\* an iteration verified and yielded one element, then met an envelope it rejected
C1_Witness ==
    /\ ret.op = "deque_iter"
    /\ ret.kind = "ValueError"
    /\ Len(ret.val) = 1
    /\ ret.data # Nil

\* C2: every envelope an adapter stored is the 32-byte HMAC of the pickled value
\* followed by the pickled value, and decoding it with the writer's key splits it
\* at byte 32 and returns the value written
C2_RoundTrip ==
    \A k \in Keys :
        (gdict[DictName][k] # Nil /\ gdict[DictName][k][1].by \in DictInsts) =>
            LET g == gdict[DictName][k][1]
                s == self[g.by].key
                e == hashes[DictName][str_encode(k)]
            IN /\ e # Nil
               /\ Len(e[1]) = digest_len + Len(pickle_dumps(g.val))
               /\ SubSeq(e[1], 1, digest_len) = hmac_digest(s, pickle_dumps(g.val))
               /\ SubSeq(e[1], digest_len + 1, Len(e[1])) = pickle_dumps(g.val)
               /\ decode(s, e[1]).kind = "return"
               /\ decode(s, e[1]).val = <<g.val>>

\* both values are stored, under different keys of the hash
C2_Witness ==
    /\ gdict[DictName][<<97>>] = Some(Entry(0, "A"))
    /\ gdict[DictName][<<233>>] = Some(Entry(1, "E"))

\* the key as HMAC uses it: padded with zero bytes to the block size
HmacKey(key) == key \o Zeros(hmac_block_size - Len(key))

\* the last call was a get of a key that holds what adapter w wrote
GotFrom(w) ==
    /\ ret.op = "dict_get"
    /\ gdict[DictName][ret.arg] # Nil
    /\ gdict[DictName][ret.arg][1].by = w

\* C3 (as claimed): a get by an adapter whose secret differs from the writer's
\* raises the integrity error (ValueError)
C3_AnyDistinctSecret ==
    \A w \in DictInsts :
        (GotFrom(w) /\ self[w].key # self[ret.inst].key) => ret.kind = "ValueError"

\* C3 (amended): a get by an adapter whose secret differs from the writer's as an
\* HMAC key, that is after padding both with zero bytes to the block size, raises
\* the integrity error (ValueError), not KeyError, and returns no value
C3_DistinctHmacKey ==
    \A w \in DictInsts :
        (GotFrom(w) /\ HmacKey(self[w].key) # HmacKey(self[ret.inst].key)) =>
            ret.kind = "ValueError" /\ ret.val = <<>>

\* E read a field that A wrote
C3_Witness == GotFrom("A") /\ ret.inst = "E" /\ ret.kind = "ValueError"

\* C4: a get by an adapter with the writer's prefix, name and secret returns the
\* value last set for the key, and raises KeyError when the key was deleted or
\* never set
C4_ReadYourWrites ==
    ret.op = "dict_get" =>
        LET g == gdict[redis_name(ret.inst)][ret.arg]
        IN /\ g = Nil => ret.kind = "KeyError"
           /\ (g # Nil /\ g[1].by \in DictInsts /\ self[g[1].by] = self[ret.inst]) =>
                 ret.kind = "return" /\ ret.val = <<g[1].val>>

\* B read what A wrote
C4_Witness == GotFrom("A") /\ ret.inst = "B" /\ ret.kind = "return" /\ ret.val = <<1>>

\* C5: a delete of an absent key raises KeyError and leaves the hash as it was; a
\* delete of a present key removes that field and no other
C5_Delete ==
    [][ret'.op = "dict_del" =>
        LET h == hashes[redis_name(ret'.inst)]
            h2 == hashes'[redis_name(ret'.inst)]
            f == str_encode(ret'.arg)
        IN IF h[f] = Nil
           THEN ret'.kind = "KeyError" /\ h2 = h /\ HLEN(h2) = HLEN(h)
           ELSE /\ ret'.kind = "return"
                /\ h2[f] = Nil
                /\ \A f2 \in Fields \ {f} : h2[f2] = h[f2]]_vars

\* a delete of an absent key failed while the other key was present
C5_Witness ==
    /\ ret.op = "dict_del"
    /\ ret.kind = "KeyError"
    /\ HLEN(hashes[DictName]) = 1

Present == {k \in Keys : gdict[DictName][k] # Nil}

\* C6: the length is the number of keys set and not deleted since
C6_Length ==
    /\ HLEN(hashes[DictName]) = Cardinality(Present)
    /\ ret.op = "dict_len" => ret.val = <<Cardinality(Present)>>

\* the length was read with one key present and the other absent
C6_Witness == ret.op = "dict_len" /\ ret.val = <<1>>

\* C7: an iteration yields every key that is present once, and no other
C7_IterKeys ==
    ret.op = "dict_iter" =>
        /\ {ret.keys[j] : j \in 1..Len(ret.keys)} = Present
        /\ Len(ret.keys) = Cardinality(Present)

\* an iteration yielded both keys
C7_Witness == ret.op = "dict_iter" /\ Len(ret.keys) = 2

Xs == glist[DequeName].xs

\* every element of the history was written with the key of adapter i
AllBy(i) == \A j \in 1..Len(Xs) : Xs[j].by \in DequeInsts /\ self[Xs[j].by].key = self[i].key

\* C8: on a list built from empty by appends alone, the length is the number of
\* appends, and an iteration that no write came across yields the appended values
\* in their order, as many as the length
C8_AppendOrder ==
    /\ LLEN(lists[DequeName]) = Len(Xs)
    /\ (ret.op = "deque_len" /\ glist[DequeName].pure) => ret.val = <<Len(Xs)>>
    /\ (ret.op = "deque_iter" /\ ret.clean /\ glist[DequeName].pure /\ AllBy(ret.inst)) =>
          /\ ret.kind = "return"
          /\ ret.val = [j \in 1..Len(Xs) |-> Xs[j].val]
          /\ Len(ret.val) = LLEN(lists[DequeName])

\* 0 then 1 were appended to the empty list, and an iteration yielded them
C8_Witness ==
    /\ ret.op = "deque_iter"
    /\ ret.clean
    /\ glist[DequeName].pure
    /\ ret.val = <<0, 1>>

\* the position of Python index i in a sequence of n elements, counted from 1
PyPos(i, n) == IF i >= 0 THEN i + 1 ELSE n + i + 1

\* C9: a get at index i, -n <= i < n, that no write came across returns the
\* element at Python position i: from the head for i >= 0, from the tail for i < 0
C9_Indexing ==
    (ret.op = "deque_get" /\ ret.clean) =>
        LET i == ret.arg[1]
            n == Len(Xs)
        IN (0 - n <= i /\ i < n /\ self[Xs[PyPos(i, n)].by].key = self[ret.inst].key) =>
              ret.kind = "return" /\ ret.val = <<Xs[PyPos(i, n)].val>>

\* get(-1) returned the tail of a list of two different values
C9_Witness ==
    /\ ret.op = "deque_get"
    /\ ret.clean
    /\ ret.arg = <<0 - 1>>
    /\ ret.kind = "return"
    /\ Len(Xs) = 2
    /\ Xs[1].val # Xs[2].val

\* C10 (as claimed): a get at an index outside -n..n-1 fails with the error for a
\* missing element (KeyError, as the raise is written, or IndexError) and returns
\* no element
C10_OutOfRange ==
    (ret.op = "deque_get" /\ ret.clean) =>
        LET i == ret.arg[1]
            n == Len(Xs)
        IN (i >= n \/ i < 0 - n) => ret.kind \in {"KeyError", "IndexError"}

\* the envelope of value v under the key of adapter i: the HMAC of the pickled
\* value, then the pickled value
Envelope(i, v) == hmac_digest(self[i].key, pickle_dumps(v)) \o pickle_dumps(v)

\* the remote list now, and list l with the element at position p replaced by e
Now == lists[DequeName]
Replaced(l, p, e) == [j \in 1..Len(l) |-> IF j = p THEN e ELSE l[j]]

\* C11 (as claimed): a set at index i, -n <= i < n, on a list of n elements ends
\* without error and leaves the list with the envelope of the value at position i,
\* its length and its other elements as they were
C11_SetItem ==
    ret.op = "deque_set" =>
        LET i == ret.arg[1]
            n == Len(ret.base)
        IN (0 - n <= i /\ i < n) =>
              /\ ret.kind = "return"
              /\ Now = Replaced(ret.base, PyPos(i, n), Envelope(ret.inst, ret.arg[2]))

\* the envelopes of the values of data under the key of adapter i, last first
Reversed(i, data) == [j \in 1..Len(data) |-> Envelope(i, data[Len(data) + 1 - j])]

\* C12: an extendleft that no other write came across leaves the list with the
\* items of its argument in reverse order, followed by the list as it was
C12_ExtendLeft ==
    (ret.op = "extendleft" /\ ret.clean) =>
        /\ ret.kind = "return"
        /\ Now = Reversed(ret.inst, ret.arg) \o ret.base
        /\ LLEN(Now) = Len(ret.arg) + Len(ret.base)

\* extendleft([0, 1]) on the empty list left 1 at the head and 0 behind it
C12_Witness ==
    /\ ret.op = "extendleft"
    /\ ret.clean
    /\ ret.arg = <<0, 1>>
    /\ Now = <<Envelope(ret.inst, 1), Envelope(ret.inst, 0)>>

PopOps == {"pop", "popleft"}

\* of the outcome r of a pop or popleft on a list that held an element: the
\* position the call is to take (the tail for pop, the head for popleft), the
\* element there, and the list without it
End(r) == IF r.op = "pop" THEN Len(r.base) ELSE 1
Ended(r) == r.base[End(r)]
Rest(r) == IF r.op = "pop" THEN SubSeq(r.base, 1, Len(r.base) - 1) ELSE SubSeq(r.base, 2, Len(r.base))

\* the envelope e is that of some value under the key of adapter i
SignedBy(i, e) == \E v \in Values : e = Envelope(i, v)

\* C13: on a list that holds an element, pop returns the value at the tail and
\* popleft the value at the head, when that element's envelope is of the caller's
\* key, and the list is left without exactly that element, the others in order
C13_PopEnds ==
    (ret.op \in PopOps /\ ret.base # <<>> /\ SignedBy(ret.inst, Ended(ret))) =>
        /\ ret.kind = "return"
        /\ Len(ret.val) = 1
        /\ Envelope(ret.inst, ret.val[1]) = Ended(ret)
        /\ Now = Rest(ret)

\* pop returned the tail of a list of two different elements
C13_Witness ==
    /\ ret.op = "pop"
    /\ ret.kind = "return"
    /\ Len(ret.base) = 2
    /\ ret.base[1] # ret.base[2]
    /\ ret.val = <<1>>
    /\ Len(Xs) = 1 /\ Xs[1].val = 0

\* C14: pop and popleft issue one Redis command, the pop itself, and no length
\* is read before it.  On the empty list the call raises IndexError and leaves
\* the list empty; on a list that holds an element the call takes that element
\* off the list, so that no later pop can return it, and returns its value when
\* the envelope is of the caller's key.  On a list the adapters alone write, a pop
\* raises IndexError only when the list was empty: of the pops that come in any
\* order on n elements of the poppers' keys, n return and the others raise
\* IndexError
C14_AtomicPop ==
    ret.op \in PopOps =>
        /\ ret.cmds = IF ret.op = "pop" THEN <<"RPOP">> ELSE <<"LPOP">>
        /\ ret.base = <<>> => (ret.kind = "IndexError" /\ Now = <<>> /\ ret.data = Nil)
        /\ ret.kind = "IndexError" => ret.base = <<>>
        /\ ret.base # <<>> =>
              /\ LLEN(Now) = Len(ret.base) - 1
              /\ ret.data = Some(Ended(ret))
              /\ SignedBy(ret.inst, Ended(ret)) => ret.kind = "return"

\* adapter R popped its own element off a list that adapter P had appended to
\* as well, and P's element is what the list holds
C14_Witness ==
    /\ ret.op \in PopOps
    /\ ret.inst = "R"
    /\ ret.kind = "return"
    /\ Len(ret.base) = 2
    /\ Now = <<Envelope("P", 0)>>

\* C20: a pop or popleft that raises ValueError, the digest of the element it
\* took not being the caller's HMAC of the payload, has taken the element off the
\* list all the same: the list is one shorter and the element is not put back
C20_PopBeforeVerify ==
    (ret.op \in PopOps /\ ret.kind = "ValueError") =>
        /\ ret.base # <<>>
        /\ ret.data = Some(Ended(ret))
        /\ ~SignedBy(ret.inst, Ended(ret))
        /\ ret.unpickled = <<>>
        /\ Now = Rest(ret)
        /\ LLEN(Now) = Len(ret.base) - 1

\* adapter R popped the tail of a list of two elements that adapter P had
\* appended: ValueError, and one element is left
C20_Witness ==
    /\ ret.op = "pop"
    /\ ret.inst = "R"
    /\ ret.kind = "ValueError"
    /\ ret.base = <<Envelope("P", 0), Envelope("P", 1)>>
    /\ Now = <<Envelope("P", 0)>>

\* C15: clear issues one Redis command, DEL of the list's key.  After it the
\* length is 0 (so that an iteration yields nothing), pop and popleft raise
\* IndexError, and the other key of the server holds what it held
C15_Clear ==
    ret.op = "clear" =>
        /\ ret.kind = "return"
        /\ ret.cmds = <<"DEL">>
        /\ Now = <<>>
        /\ RedisDeque_len(ret.inst) = 0
        /\ RedisDeque_pop(ret.inst).kind = "IndexError"
        /\ RedisDeque_popleft(ret.inst).kind = "IndexError"
        /\ hashes[DictName] = OtherHash

\* a list of two elements was cleared
C15_Witness ==
    /\ ret.op = "clear"
    /\ Len(ret.base) = 2
    /\ Now = <<>>
    /\ HLEN(hashes[DictName]) = 1

\* C16: insert and __delitem__ raise NotImplementedError for every index and
\* every list, issue no Redis command, and leave the list as it was
C16_Unsupported ==
    ret.op \in {"insert", "delitem"} =>
        /\ ret.kind = "NotImplementedError"
        /\ ret.cmds = <<>>
        /\ Now = ret.base

\* the element at index 0 of a list of two was to be deleted, and is still there
C16_Witness ==
    /\ ret.op = "delitem"
    /\ ret.arg = <<0>>
    /\ ret.kind = "NotImplementedError"
    /\ Len(Now) = 2

\* list l without its first c elements equal to e, counted from the head
RECURSIVE Removed(_, _, _)
Removed(l, e, c) ==
    IF l = <<>> \/ c = 0 THEN l
    ELSE IF Head(l) = e THEN Removed(Tail(l), e, c - 1)
    ELSE <<Head(l)>> \o Removed(Tail(l), e, c)

\* the number of elements of l equal to e
Count(l, e) == Cardinality({j \in 1..Len(l) : l[j] = e})

\* C17: remove(value, count) with count >= 1, on a list that holds k elements
\* equal to the envelope of value under the caller's key: for k >= 1 the first
\* min(k, count) of them from the head are taken, the other elements keep their
\* order, and the number taken is returned; for k = 0, which is so also when the
\* value is there under another key, ValueError is raised and the list is as it was
C17_Remove ==
    ret.op = "remove" =>
        LET e == Envelope(ret.inst, ret.arg[1])
            count == ret.arg[2]
            k == Count(ret.base, e)
        IN IF k = 0
           THEN ret.kind = "ValueError" /\ Now = ret.base
           ELSE /\ ret.kind = "return"
                /\ ret.val = <<Min(k, count)>>
                /\ Now = Removed(ret.base, e, count)
                /\ Len(Now) = Len(ret.base) - Min(k, count)

\* remove(0, 1) took the first of the two 0 of adapter P and left the 1 between
\* them and the second
C17_Witness ==
    /\ ret.op = "remove"
    /\ ret.inst = "P"
    /\ ret.arg = <<0, 1>>
    /\ ret.base = <<Envelope("P", 0), Envelope("P", 1), Envelope("P", 0)>>
    /\ Now = <<Envelope("P", 1), Envelope("P", 0)>>
    /\ ret.val = <<1>>

\* the commands named cmd among those r issued
Issued(r, cmd) == Cardinality({j \in 1..Len(r.cmds) : r.cmds[j] = cmd})

\* an iteration reads the length once, before anything else; while it runs it has
\* read and yielded fewer elements than that length, and when it has ended it has
\* read and yielded no more of them than that length
C18_IterBound ==
    /\ call.op = "iter" =>
          /\ call.cmds[1] = "LLEN" /\ Issued(call, "LLEN") = 1
          /\ Issued(call, "LINDEX") = call.index
          /\ Len(call.out) = call.index
          /\ call.index < call.n
    /\ ret.op = "deque_iter" =>
          /\ ret.cmds[1] = "LLEN" /\ Issued(ret, "LLEN") = 1
          /\ Issued(ret, "LINDEX") <= ret.n
          /\ Len(ret.val) <= ret.n

\* C18: an iteration reads the length once, at its start, reads at most that many
\* elements by index and yields at most that many, whatever the other adapters
\* write meanwhile; and an iteration whose consumer keeps asking ends
C18_Iteration == []C18_IterBound /\ ((call.op = "iter") ~> (call.op # "iter"))

\* an iteration that began on a list of one element ended after that element,
\* on a list that had grown to two
C18_Witness ==
    /\ ret.op = "deque_iter"
    /\ ~ret.clean
    /\ ret.n = 1
    /\ Len(ret.val) = 1
    /\ Len(Now) = 2

\* C19 (as claimed): a get at index -1, on a list that holds an element at every
\* moment of the call, reads an element that was at the tail of the list at some
\* moment of the call
C19_TailRead ==
    (ret.op = "deque_get" /\ ret.arg = <<0 - 1>> /\ ret.held) =>
        /\ ret.data # Nil
        /\ ret.data[1] \in ret.tails

====
